---- MODULE Spec2Model ----
(***************************************************************************)
(* Voice-call lifecycle of ParakeetBot: the songbird call registry, the    *)
(* per-guild QueueMeta, the play and stop commands and the three global    *)
(* event handlers (CheckIdle, DisconnectStop, RemoveMeta).                 *)
(*                                                                         *)
(* The voice transport (songbird), the Discord cache and the media         *)
(* resolver are collaborators outside the repository: every call into      *)
(* them is a step whose outcome is drawn nondeterministically.             *)
(***************************************************************************)
EXTENDS Naturals, Sequences, FiniteSets

\* ------------------------------------------------------------------ bounds
NumGuilds == 2      \* guild ids 1..NumGuilds
NumTasks == 2       \* concurrently running command tasks
MaxQueue == 2       \* tracks a guild's queues may hold
MaxPending == 2     \* track-end notifications in flight per guild
MaxShown == 3       \* entries of a QueueMeta handed to display_string alone
MaxReads == 3       \* launches of the bot, each with one Config::read
MaxLen == 3         \* characters of a format string

Guilds == 1..NumGuilds
Tasks == 1..NumTasks

\* The guild every single-session specification runs on.
Home == {1}

VARIABLES
    registry,     \* registry[g]: the songbird manager holds a Call for g
    callsMade,    \* callsMade[g]: Call objects ever created for g
    chan,         \* chan[g]: call.current_channel() is Some
    queue,        \* queue[g]: the call's playback queue (titles, head = current)
    idleReg,      \* idleReg[g]: CheckIdle handlers registered on the call
    dcReg,        \* dcReg[g]: DisconnectStop handlers registered on the call
    endReg,       \* endReg[g]: RemoveMeta handlers registered on the call
    callLock,     \* callLock[g]: "free", or held across a suspension by "idle" / "stop" / "skip"
    gdata,        \* gdata[g]: Data.guild_data has a GuildData record for g
    gdataMade,    \* gdataMade[g]: GuildData records ever created for g
    meta,         \* meta[g]: the guild's QueueMeta (titles, front first)
    dcPending,    \* dcPending[g]: a DriverDisconnect notification is in flight
    endPending,   \* endPending[g]: TrackEvent::End notifications in flight
    endTodo,      \* endTodo[g]: RemoveMeta handlers the event being delivered has yet to run
    lastTick,     \* lastTick[g]: what the latest CheckIdle::act saw and did
    pat,          \* pat[g]: leave() flags of the trailing fail, fail, empty ticks
    desyncLogged, \* desyncLogged[g]: "Tried to remove ... from empty queue" logged
    shown,        \* shown[g]: what the latest /queue command of guild g rendered
    pc,           \* pc[t]: position of command task t
    tg,           \* tg[t]: ctx.guild_id() of task t's command
    lastRes,      \* lastRes: the result of the latest command to return
    found,        \* found[t]: task t's init_global_events found the call stored
    response,     \* response: what on_error did with the latest command result
    fs,           \* fs: what is at CONFIG_PATH
    cfgRes,       \* cfgRes: what the latest Config::read returned and did
    cfgReads,     \* cfgReads: Config::read calls so far (one per launch)
    fmtIn,        \* fmtIn: the arguments of a format_opt! invocation
    fmtOut        \* fmtOut: the String it evaluated to

callVars == <<registry, callsMade, chan, queue, idleReg, dcReg, endReg, callLock>>
dataVars == <<gdata, gdataMade, meta>>
evVars == <<dcPending, endPending, endTodo>>
\* Start-up code: the config file and the error messages.
sysVars == <<fs, cfgRes, cfgReads, fmtIn, fmtOut>>
obsVars == <<lastTick, pat, desyncLogged, shown, sysVars>>
taskVars == <<pc, tg, lastRes, found, response>>
vars == <<callVars, dataVars, evVars, obsVars, taskVars>>

NoTick == [kind |-> "none", left |-> FALSE]

\* No /queue command has rendered anything yet.
NoDisplay == [empty |-> FALSE, lines |-> <<>>, len |-> 0]

\* No command has failed yet: on_error has not run.
NoResponse == [reply |-> "", level |-> "none", logged |-> "", notified |-> FALSE]

\* Config::read has not run yet.
NoRead == [from |-> "none", result |-> "none", after |-> "none", wrote |-> FALSE]

\* No format_opt! has been evaluated.
NoFormat ==
    [opt |-> [kind |-> "str", some |-> FALSE, val |-> <<>>],
     some |-> <<>>, none |-> <<>>]

NoOutput == [done |-> FALSE, text |-> <<>>]

\* The bot was launched with a complete config file; nothing of the start-up
\* code is running.
InitSys ==
    /\ fs = "valid"
    /\ cfgRes = NoRead
    /\ cfgReads = 0
    /\ fmtIn = NoFormat
    /\ fmtOut = NoOutput

InitBot ==
    /\ registry = [g \in Guilds |-> FALSE]
    /\ callsMade = [g \in Guilds |-> 0]
    /\ chan = [g \in Guilds |-> FALSE]
    /\ queue = [g \in Guilds |-> <<>>]
    /\ idleReg = [g \in Guilds |-> 0]
    /\ dcReg = [g \in Guilds |-> 0]
    /\ endReg = [g \in Guilds |-> 0]
    /\ callLock = [g \in Guilds |-> "free"]
    /\ gdata = [g \in Guilds |-> FALSE]
    /\ gdataMade = [g \in Guilds |-> 0]
    /\ meta = [g \in Guilds |-> <<>>]
    /\ dcPending = [g \in Guilds |-> FALSE]
    /\ endPending = [g \in Guilds |-> 0]
    /\ endTodo = [g \in Guilds |-> 0]
    /\ lastTick = [g \in Guilds |-> NoTick]
    /\ pat = [g \in Guilds |-> <<>>]
    /\ desyncLogged = [g \in Guilds |-> FALSE]
    /\ shown = [g \in Guilds |-> NoDisplay]
    /\ pc = [t \in Tasks |-> "idle"]
    /\ tg = [t \in Tasks |-> 1]
    /\ lastRes = "none"
    /\ found = [t \in Tasks |-> FALSE]
    /\ response = NoResponse

Init == InitBot /\ InitSys

\* ------------------------------------------------------------ QueueMeta
\* VecDeque::push_back behind the QueueMeta mutex.
push_back(q, m) == Append(q, m)

\* Mutant: the front entry is read but never removed.
pop_front_keep(q) == q

\* Mutant: the newest entry is removed instead of the oldest.
pop_front_newest(q) == IF q = <<>> THEN q ELSE SubSeq(q, 1, Len(q) - 1)

\* VecDeque::pop_front behind the QueueMeta mutex: the queue that is left.
pop_front(q) == IF q = <<>> THEN q ELSE Tail(q)

\* RemoveMeta::act logs an error when pop_front returns None.
PopLogs(q) == q = <<>>

\* A TrackMetadata is modelled by the length m of its title: no duration, no
\* channel and no url, so Display writes "{title} {duration} {channel}" as
\* the title and two spaces.
TrackLen(m) == m + 2

\* The decimal digits of a line number.
Digits(n) == IF n < 10 THEN 1 ELSE IF n < 100 THEN 2 ELSE 3

\* queue.iter().enumerate(): the number of the i-th oldest entry.
LineNum(i) == i - 1

\* The length of format!("`{num}.` {track}").
LineLen(num, m) == 4 + Digits(num) + TrackLen(m)

\* "An embed has a limit of 4096 chars".
EmbedLimit == 4096

\* The loop of display_string from entry i on: a line that would take the
\* buffer past the limit ends the loop, writeln! adds the line and "\n".
RECURSIVE Render(_, _, _)
Render(q, i, buf) ==
    IF i > Len(q) THEN buf
    ELSE LET next_line == LineLen(LineNum(i), q[i]) IN
         IF buf.len + next_line > EmbedLimit THEN buf
         ELSE Render(q, i + 1,
                     [empty |-> FALSE,
                      lines |-> Append(buf.lines, [num |-> LineNum(i), track |-> q[i]]),
                      len |-> buf.len + next_line + 1])

\* QueueMeta::display_string: "Empty queue!" or the numbered lines.
display_string(q) ==
    IF q = <<>>
      THEN [empty |-> TRUE, lines |-> <<>>, len |-> Len("Empty queue!")]
      ELSE Render(q, 1, [empty |-> FALSE, lines |-> <<>>, len |-> 0])

\* ----------------------------------------------------------- task helpers
\* The command results that are a ParakeetError::UserError.
UserErrors == {"GuildOnly", "NotInGuild", "NotInVoice", "NoActiveCall", "EmptyQueue"}

\* Display of an error: the #[error(...)] text of a UserError; a transparent
\* error shows the text of the library error it wraps, named here by its kind.
ErrorText(r) ==
    CASE r = "GuildOnly" -> "Only usable in a server."
      [] r = "NotInGuild" -> "Couldn't find your server!"
      [] r = "NotInVoice" -> "Couldn't find you in a voice channel!"
      [] r = "NoActiveCall" -> "No active call."
      [] r = "EmptyQueue" -> "Nothing in the queue!"
      [] OTHER -> r

GenericReply == "Something went wrong... A bug report has been sent."

\* Mutant: the arm for UserError is missing, every command error is a bug.
handle_framework_error_bugs(r) ==
    [reply |-> GenericReply, source |-> r, is_error |-> TRUE, notify |-> TRUE]

\* Mutant: every command error is shown to the user as it is.
handle_framework_error_verbatim(r) ==
    [reply |-> ErrorText(r), source |-> r, is_error |-> r \notin UserErrors,
     notify |-> r \notin UserErrors]

\* handle_framework_error, FrameworkError::Command: the Response built for a
\* UserError and for every other error of a command.
handle_framework_error(r) ==
    IF r \in UserErrors
      THEN [reply |-> ErrorText(r), source |-> r, is_error |-> FALSE, notify |-> FALSE]
      ELSE [reply |-> GenericReply, source |-> r, is_error |-> TRUE, notify |-> TRUE]

\* Response::send: the log line, the bug notification and the reply.
send(b) ==
    [reply |-> b.reply,
     level |-> IF b.is_error THEN "error" ELSE "debug",
     logged |-> ErrorText(b.source),
     notified |-> b.is_error /\ b.notify]

\* The framework's on_error runs when a command returns Err.
on_error(r) == IF r = "ok" THEN NoResponse ELSE send(handle_framework_error(r))

\* A command returns: the task is idle again, lastRes holds its result and
\* an error has gone through on_error.
Return(t, r) ==
    /\ pc' = [pc EXCEPT ![t] = "idle"]
    /\ lastRes' = r
    /\ found' = [found EXCEPT ![t] = FALSE]
    /\ response' = on_error(r)

Goto(t, l) ==
    /\ pc' = [pc EXCEPT ![t] = l]
    /\ UNCHANGED <<lastRes, found, response>>

\* The input a play command of task t resolves to: its title names the task.
Title(t) == t

PlayPcs == {"init_get", "init_insert", "init_meta", "reg_idle", "reg_dc",
            "reg_end", "join", "play_meta", "enq_data", "enq_meta", "enq_call"}

\* Play commands of guild g that have not yet pushed their metadata / track.
MetaToCome(g) ==
    Cardinality({t \in Tasks : tg[t] = g /\ pc[t] \in PlayPcs \ {"enq_call"}})
TrackToCome(g) ==
    Cardinality({t \in Tasks : tg[t] = g /\ pc[t] \in PlayPcs})

\* ------------------------------------------------- songbird manager (map)
\* Mutant: the events are initialized on every call, stored call or not.
NeedsInit_always(g) == TRUE

\* manager.get(guild_id) is None: the branch of init_global_events that
\* creates the call and registers the global events.
NeedsInit(g) == ~registry[g]

\* Mutant: a fresh Call replaces whatever the manager stored.
get_or_insert_fresh(g) ==
    /\ registry' = [registry EXCEPT ![g] = TRUE]
    /\ callsMade' = [callsMade EXCEPT ![g] = @ + 1]

\* manager.get_or_insert(guild_id): a Call is created only when none is stored.
get_or_insert(g) ==
    /\ registry' = [registry EXCEPT ![g] = TRUE]
    /\ callsMade' = [callsMade EXCEPT ![g] = IF registry[g] THEN @ ELSE @ + 1]

\* Mutant: the map is not looked up first, every call inserts a default record.
guild_data_fresh(g) ==
    /\ gdata' = [gdata EXCEPT ![g] = TRUE]
    /\ gdataMade' = [gdataMade EXCEPT ![g] = @ + 1]

\* Mutant: a record that is found is taken out of the map.
guild_data_evict(g) ==
    /\ gdata' = [gdata EXCEPT ![g] = ~@]
    /\ gdataMade' = [gdataMade EXCEPT ![g] = IF gdata[g] THEN @ ELSE @ + 1]

\* ctx.guild_data(): the record is created under the map's lock when absent.
guild_data(g) ==
    /\ gdata' = [gdata EXCEPT ![g] = TRUE]
    /\ gdataMade' = [gdataMade EXCEPT ![g] = IF gdata[g] THEN @ ELSE @ + 1]

\* ------------------------------------------------------------ play command
\* play: the query is resolved, then join_author starts.  Inside a guild.
StartPlay(t, g) ==
    /\ pc[t] = "idle"
    /\ Len(meta[g]) + MetaToCome(g) < MaxQueue
    /\ Len(queue[g]) + TrackToCome(g) < MaxQueue
    /\ pc' = [pc EXCEPT ![t] = "init_get"]
    /\ tg' = [tg EXCEPT ![t] = g]
    /\ UNCHANGED <<lastRes, found, response, callVars, dataVars, evVars, obsVars>>

\* init_global_events with ctx.guild_id() None: UserError::GuildOnly.
PlayNoGuild(t) ==
    /\ pc[t] = "idle"
    /\ lastRes' = "GuildOnly"
    /\ response' = on_error("GuildOnly")
    /\ UNCHANGED <<pc, tg, found, callVars, dataVars, evVars, obsVars>>

\* init_global_events: match manager.get(guild_id).
InitGet(t) ==
    /\ pc[t] = "init_get"
    /\ IF NeedsInit(tg[t])
         THEN Goto(t, "init_insert")
         ELSE /\ pc' = [pc EXCEPT ![t] = "join"]
              /\ found' = [found EXCEPT ![t] = TRUE]
              /\ UNCHANGED <<lastRes, response>>
    /\ UNCHANGED <<tg, callVars, dataVars, evVars, obsVars>>

\* init_global_events: manager.get_or_insert, CheckIdle::new, DisconnectStop::new.
InitInsert(t) ==
    /\ pc[t] = "init_insert"
    /\ get_or_insert(tg[t])
    /\ Goto(t, "init_meta")
    /\ UNCHANGED <<tg, chan, queue, idleReg, dcReg, endReg, callLock,
                   dataVars, evVars, obsVars>>

\* init_global_events: RemoveMeta::new clones the guild's QueueMeta.
InitMeta(t) ==
    /\ pc[t] = "init_meta"
    /\ guild_data(tg[t])
    /\ Goto(t, "reg_idle")
    /\ UNCHANGED <<tg, meta, callVars, evVars, obsVars>>

\* CheckIdle::register: add_global_event under the call's mutex.
RegIdle(t) ==
    /\ pc[t] = "reg_idle"
    /\ callLock[tg[t]] = "free"
    /\ idleReg' = [idleReg EXCEPT ![tg[t]] = @ + 1]
    /\ Goto(t, "reg_dc")
    /\ UNCHANGED <<tg, registry, callsMade, chan, queue, dcReg, endReg,
                   callLock, dataVars, evVars, obsVars>>

\* DisconnectStop::register.
RegDc(t) ==
    /\ pc[t] = "reg_dc"
    /\ callLock[tg[t]] = "free"
    /\ dcReg' = [dcReg EXCEPT ![tg[t]] = @ + 1]
    /\ Goto(t, "reg_end")
    /\ UNCHANGED <<tg, registry, callsMade, chan, queue, idleReg, endReg,
                   callLock, dataVars, evVars, obsVars>>

\* RemoveMeta::register.
RegEnd(t) ==
    /\ pc[t] = "reg_end"
    /\ callLock[tg[t]] = "free"
    /\ endReg' = [endReg EXCEPT ![tg[t]] = @ + 1]
    /\ Goto(t, "join")
    /\ UNCHANGED <<tg, registry, callsMade, chan, queue, idleReg, dcReg,
                   callLock, dataVars, evVars, obsVars>>

\* join_author: the author is not found in a guild or in a voice channel.
JoinRejected(t) ==
    /\ pc[t] = "join"
    /\ \E e \in {"NotInGuild", "NotInVoice"} : Return(t, e)
    /\ UNCHANGED <<tg, callVars, dataVars, evVars, obsVars>>

\* join_author: manager.join(guild_id, channel_id) succeeds.
JoinOk(t) ==
    /\ pc[t] = "join"
    /\ callLock[tg[t]] = "free"
    /\ get_or_insert(tg[t])
    /\ chan' = [chan EXCEPT ![tg[t]] = TRUE]
    /\ Goto(t, "play_meta")
    /\ UNCHANGED <<tg, queue, idleReg, dcReg, endReg, callLock,
                   dataVars, evVars, obsVars>>

\* Mutant: a failed join removes the call from the manager.
JoinFail_removes(t) ==
    /\ pc[t] = "join"
    /\ callLock[tg[t]] = "free"
    /\ registry' = [registry EXCEPT ![tg[t]] = FALSE]
    /\ chan' = [chan EXCEPT ![tg[t]] = FALSE]
    /\ Return(t, "JoinError")
    /\ UNCHANGED <<tg, callsMade, queue, idleReg, dcReg, endReg, callLock,
                   dataVars, evVars, obsVars>>

\* join_author: manager.join fails with a JoinError; whether the call is
\* left with a (half-open) connection is the transport's business.
JoinFail(t) ==
    /\ pc[t] = "join"
    /\ callLock[tg[t]] = "free"
    /\ get_or_insert(tg[t])
    /\ \E c \in BOOLEAN : chan' = [chan EXCEPT ![tg[t]] = c]
    /\ Return(t, "JoinError")
    /\ UNCHANGED <<tg, queue, idleReg, dcReg, endReg, callLock,
                   dataVars, evVars, obsVars>>

\* play: ctx.defer() and input.aux_metadata() before the enqueue.
PlayMeta(t) ==
    /\ pc[t] = "play_meta"
    /\ \/ Goto(t, "enq_data")
       \/ \E e \in {"Serenity", "MetadataError"} : Return(t, e)
    /\ UNCHANGED <<tg, callVars, dataVars, evVars, obsVars>>

\* enqueue: ctx.guild_data() and the clone of its QueueMeta.
EnqData(t) ==
    /\ pc[t] = "enq_data"
    /\ guild_data(tg[t])
    /\ Goto(t, "enq_meta")
    /\ UNCHANGED <<tg, meta, callVars, evVars, obsVars>>

\* Mutant: the entry is pushed before the metadata is known to be there.
EnqMetaFail_pushed(t) ==
    /\ pc[t] = "enq_meta"
    /\ meta' = [meta EXCEPT ![tg[t]] = push_back(@, Title(t))]
    /\ Return(t, "MetadataError")
    /\ UNCHANGED <<tg, gdata, gdataMade, callVars, evVars, obsVars>>

\* enqueue: TrackMetadata::from_input fails, nothing is pushed.
EnqMetaFail(t) ==
    /\ pc[t] = "enq_meta"
    /\ Return(t, "MetadataError")
    /\ UNCHANGED <<tg, callVars, dataVars, evVars, obsVars>>

\* Mutant: the metadata is not pushed before the track is enqueued.
EnqMeta_late(t) ==
    /\ pc[t] = "enq_meta"
    /\ Goto(t, "enq_call")
    /\ UNCHANGED <<tg, callVars, dataVars, evVars, obsVars>>

\* enqueue: TrackMetadata::from_input, then queue_meta.push_back(metadata).
EnqMeta(t) ==
    /\ pc[t] = "enq_meta"
    /\ meta' = [meta EXCEPT ![tg[t]] = push_back(@, Title(t))]
    /\ Goto(t, "enq_call")
    /\ UNCHANGED <<tg, gdata, gdataMade, callVars, evVars, obsVars>>

\* Mutant: the track is enqueued without taking the call's mutex.
EnqCall_unlocked(t) ==
    /\ pc[t] = "enq_call"
    /\ queue' = [queue EXCEPT ![tg[t]] = Append(@, Title(t))]
    /\ \E r \in {"ok", "Serenity"} : Return(t, r)
    /\ UNCHANGED <<tg, registry, callsMade, chan, idleReg, dcReg,
                   endReg, callLock, dataVars, evVars, obsVars>>

\* enqueue: call.enqueue_input(input) under the call's mutex; then play
\* sends its reply, which may fail.
EnqCall(t) ==
    /\ pc[t] = "enq_call"
    /\ callLock[tg[t]] = "free"
    /\ queue' = [queue EXCEPT ![tg[t]] = Append(@, Title(t))]
    /\ \E r \in {"ok", "Serenity"} : Return(t, r)
    /\ UNCHANGED <<tg, registry, callsMade, chan, idleReg, dcReg,
                   endReg, callLock, dataVars, evVars, obsVars>>

PlayStep(t) ==
    \/ InitGet(t) \/ InitInsert(t) \/ InitMeta(t)
    \/ RegIdle(t) \/ RegDc(t) \/ RegEnd(t)
    \/ JoinRejected(t) \/ JoinOk(t) \/ JoinFail(t)
    \/ PlayMeta(t) \/ EnqData(t) \/ EnqMetaFail(t) \/ EnqMeta(t) \/ EnqCall(t)

\* -------------------------------------------------- the call (transport)
\* Call::leave(): the call has no current channel afterwards, whether or
\* not the gateway update that follows succeeds.
leave(g) == chan' = [chan EXCEPT ![g] = FALSE]

\* The driver reports DriverDisconnect only when a connection was dropped.
LeaveNotifies(g) == chan[g]

\* Mutant: the track queues of all calls are stopped.
queue_stop_all(g) ==
    /\ queue' = [h \in Guilds |-> <<>>]
    /\ \E k \in {0, Len(queue[g])} :
          /\ endPending[g] + k <= MaxPending
          /\ endPending' = [endPending EXCEPT ![g] = @ + k]

\* TrackQueue::stop(): every queued track is stopped and the queue emptied.
\* Whether the driver then reports TrackEvent::End for the stopped tracks is
\* the transport's business: none, or one per stopped track.
queue_stop(g) ==
    /\ queue' = [queue EXCEPT ![g] = <<>>]
    /\ \E k \in {0, Len(queue[g])} :
          /\ endPending[g] + k <= MaxPending
          /\ endPending' = [endPending EXCEPT ![g] = @ + k]

\* A handler that returns Some(Event::Cancel) is removed; None keeps it.
After(n, r, fired) == IF r = "cancel" THEN n - fired ELSE n

\* ------------------------------------------------------------ stop command
\* stop: manager.get(guild_id), or "I'm not in a voice channel."
StartStop(t, g) ==
    /\ pc[t] = "idle"
    /\ tg' = [tg EXCEPT ![t] = g]
    /\ IF registry[g]
         THEN /\ pc' = [pc EXCEPT ![t] = "stop_lock"]
              /\ UNCHANGED <<lastRes, found, response>>
         ELSE Return(t, "NoVoiceChannel")
    /\ UNCHANGED <<callVars, dataVars, evVars, obsVars>>

\* stop: call.lock().await, then the check of current_channel().
StopLock(t) ==
    /\ pc[t] = "stop_lock"
    /\ callLock[tg[t]] = "free"
    /\ IF chan[tg[t]]
         THEN Goto(t, "stop_leave") /\ callLock' = [callLock EXCEPT ![tg[t]] = "stop"]
         ELSE Return(t, "NoVoiceChannel") /\ UNCHANGED callLock
    /\ UNCHANGED <<tg, registry, callsMade, chan, queue, idleReg,
                   dcReg, endReg, dataVars, evVars, obsVars>>

\* Mutant: the early return keeps the guard of the call.
StopLeave_keeps(t) ==
    /\ pc[t] = "stop_leave"
    /\ leave(tg[t])
    /\ dcPending' = [dcPending EXCEPT ![tg[t]] = @ \/ LeaveNotifies(tg[t])]
    /\ \/ Goto(t, "stop_queue") /\ UNCHANGED callLock
       \/ Return(t, "Error") /\ UNCHANGED callLock
    /\ UNCHANGED <<tg, registry, callsMade, queue, idleReg, dcReg,
                   endReg, dataVars, endPending, endTodo, obsVars>>

\* stop: try_join!(leave, reply)?: the call leaves; an error of either
\* future returns early, with the queue untouched.
StopLeave(t) ==
    /\ pc[t] = "stop_leave"
    /\ leave(tg[t])
    /\ dcPending' = [dcPending EXCEPT ![tg[t]] = @ \/ LeaveNotifies(tg[t])]
    /\ \/ Goto(t, "stop_queue") /\ UNCHANGED callLock
       \/ Return(t, "Error") /\ callLock' = [callLock EXCEPT ![tg[t]] = "free"]
    /\ UNCHANGED <<tg, registry, callsMade, queue, idleReg, dcReg,
                   endReg, dataVars, endPending, endTodo, obsVars>>

\* stop: call_lock.queue().stop(), Ok(()).
StopQueue(t) ==
    /\ pc[t] = "stop_queue"
    /\ queue_stop(tg[t])
    /\ callLock' = [callLock EXCEPT ![tg[t]] = "free"]
    /\ Return(t, "ok")
    /\ UNCHANGED <<tg, registry, callsMade, chan, idleReg, dcReg,
                   endReg, dataVars, dcPending, endTodo, obsVars>>

StopStep(t) == StopLock(t) \/ StopLeave(t) \/ StopQueue(t)

\* ------------------------------------------------------------ skip command
\* The registry's lookup for commands that need an existing call: the call
\* of a session that is connected; a call that has left is no active call.
lookup(g) == registry[g] /\ chan[g]

\* skip: the call is looked up, or the command fails with "No active call."
StartSkip(t, g) ==
    /\ pc[t] = "idle"
    /\ tg' = [tg EXCEPT ![t] = g]
    /\ IF lookup(g)
         THEN /\ pc' = [pc EXCEPT ![t] = "skip_lock"]
              /\ UNCHANGED <<lastRes, found, response>>
         ELSE Return(t, "NoActiveCall")
    /\ UNCHANGED <<callVars, dataVars, evVars, obsVars>>

\* TrackQueue::skip(): the current track is stopped, the queue advances and
\* TrackEvent::End is on its way.
queue_skip(g) ==
    /\ endPending[g] < MaxPending
    /\ queue' = [queue EXCEPT ![g] = Tail(@)]
    /\ endPending' = [endPending EXCEPT ![g] = @ + 1]

\* Mutant: a skip with no current track stops the queue and leaves.
SkipLock_leaves(t) ==
    /\ pc[t] = "skip_lock"
    /\ callLock[tg[t]] = "free"
    /\ chan' = [chan EXCEPT ![tg[t]] = FALSE]
    /\ IF queue[tg[t]] = <<>>
         THEN /\ Return(t, "EmptyQueue")
              /\ UNCHANGED <<queue, endPending, callLock>>
         ELSE /\ queue_skip(tg[t])
              /\ callLock' = [callLock EXCEPT ![tg[t]] = "skip"]
              /\ Goto(t, "skip_reply")
    /\ UNCHANGED <<tg, registry, callsMade, idleReg, dcReg, endReg,
                   dataVars, dcPending, endTodo, obsVars>>

\* skip: call.lock().await, queue.current(): EmptyQueue, or queue.skip()
\* and the reply, sent with the call still locked.
SkipLock(t) ==
    /\ pc[t] = "skip_lock"
    /\ callLock[tg[t]] = "free"
    /\ IF queue[tg[t]] = <<>>
         THEN /\ Return(t, "EmptyQueue")
              /\ UNCHANGED <<queue, endPending, callLock>>
         ELSE /\ queue_skip(tg[t])
              /\ callLock' = [callLock EXCEPT ![tg[t]] = "skip"]
              /\ Goto(t, "skip_reply")
    /\ UNCHANGED <<tg, registry, callsMade, chan, idleReg, dcReg, endReg,
                   dataVars, dcPending, endTodo, obsVars>>

\* skip: reply_simple_msg returns, the guard of the call is dropped.
SkipReply(t) ==
    /\ pc[t] = "skip_reply"
    /\ callLock' = [callLock EXCEPT ![tg[t]] = "free"]
    /\ \E r \in {"ok", "Serenity"} : Return(t, r)
    /\ UNCHANGED <<tg, registry, callsMade, chan, queue, idleReg, dcReg, endReg,
                   dataVars, evVars, obsVars>>

SkipStep(t) == SkipLock(t) \/ SkipReply(t)

\* ---------------------------------------------------------- CheckIdle::act
\* Mutant: the test of has_members is inverted.
IdleLeaves_members(obs) == obs = "members"

\* Mutant: only a failed lookup keeps the bot in the channel.
IdleLeaves_unlessFail(obs) == obs # "fail"

\* Mutant: a failed lookup counts as an empty channel.
IdleLeaves_onError(obs) == obs # "members"

\* What the handler does with the outcome of the membership lookup:
\* "fail" (a try operator returned None), "members" or "empty".
IdleLeaves(obs) == obs = "empty"

\* What call.leave() returns to its caller.
LeaveResults == {"ok", "err"}

\* Mutant: a tick without a channel cancels the handler.
CheckIdleResult_cancel(kind, lr) == IF kind = "nochan" THEN "cancel" ELSE "continue"

\* Mutant: a failed leave() cancels the handler (Some(Event::Cancel)).
CheckIdleResult_cancelOnErr(kind, lr) ==
    IF kind \in {"empty", "nochan"} /\ lr = "err" THEN "cancel" ELSE "continue"

\* The Option<Event> CheckIdle::act returns: None on every path, also where
\* a try operator returns early (failed lookup: kind "fail"; failed leave:
\* lr "err").
CheckIdleResult(kind, lr) == "continue"

\* The fail, fail, empty pattern of consecutive ticks, with the leave() flag
\* of each tick of the pattern seen so far.
PatNext(p, kind, left) ==
    IF kind = "fail"
      THEN IF Len(p) = 2 THEN <<p[2], left>>
           ELSE IF Len(p) = 3 THEN <<left>> ELSE Append(p, left)
      ELSE IF kind = "empty" /\ Len(p) = 2 THEN Append(p, left) ELSE <<>>

Tick(g, kind, left, lr) ==
    /\ lastTick' = [lastTick EXCEPT ![g] = [kind |-> kind, left |-> left]]
    /\ pat' = [pat EXCEPT ![g] = PatNext(@, kind, left)]
    /\ idleReg' = [idleReg EXCEPT ![g] = After(@, CheckIdleResult(kind, lr), 1)]

\* The periodic event fires and the call has no current channel:
\* "No channel means stop", call.leave() is called.
IdleNoChannel(g) ==
    /\ idleReg[g] > 0
    /\ callLock[g] = "free"
    /\ ~chan[g]
    /\ leave(g)
    /\ dcPending' = [dcPending EXCEPT ![g] = @ \/ LeaveNotifies(g)]
    /\ \E lr \in LeaveResults : Tick(g, "nochan", TRUE, lr)
    /\ UNCHANGED <<registry, callsMade, queue, dcReg, endReg, callLock,
                   dataVars, endPending, endTodo, desyncLogged, shown, sysVars, taskVars>>

\* The periodic event fires on a call with a channel: the handler keeps the
\* call's mutex while it awaits the channel and its members.
IdleBegin(g) ==
    /\ idleReg[g] > 0
    /\ callLock[g] = "free"
    /\ chan[g]
    /\ callLock' = [callLock EXCEPT ![g] = "idle"]
    /\ UNCHANGED <<registry, callsMade, chan, queue, idleReg, dcReg, endReg,
                   dataVars, evVars, obsVars, taskVars>>

\* The lookup returns: leave when no non-bot member was seen.
IdleLookup(g, obs) ==
    /\ callLock[g] = "idle"
    /\ IF IdleLeaves(obs)
         THEN /\ leave(g)
              /\ dcPending' = [dcPending EXCEPT ![g] = @ \/ LeaveNotifies(g)]
         ELSE UNCHANGED <<chan, dcPending>>
    /\ \E lr \in LeaveResults : Tick(g, obs, IdleLeaves(obs), lr)
    /\ callLock' = [callLock EXCEPT ![g] = "free"]
    /\ UNCHANGED <<registry, callsMade, queue, dcReg, endReg, dataVars,
                   endPending, endTodo, desyncLogged, shown, sysVars, taskVars>>

\* ----------------------------------------------------- DisconnectStop::act
\* The Option<Event> DisconnectStop::act returns.
DisconnectStopResult == "continue"

\* What DisconnectStop::act does to the guild's QueueMeta: nothing.
DisconnectMeta(q) == q

\* The transport drops the connection (kicked, network): DriverDisconnect.
TransportDrop(g) ==
    /\ chan[g]
    /\ callLock[g] = "free"
    /\ chan' = [chan EXCEPT ![g] = FALSE]
    /\ dcPending' = [dcPending EXCEPT ![g] = TRUE]
    /\ UNCHANGED <<registry, callsMade, queue, idleReg, dcReg, endReg, callLock,
                   dataVars, endPending, endTodo, obsVars, taskVars>>

\* DriverDisconnect is delivered: every registered DisconnectStop locks the
\* call and stops its queue.
DisconnectStopAct(g) ==
    /\ dcPending[g]
    /\ callLock[g] = "free"
    /\ dcPending' = [dcPending EXCEPT ![g] = FALSE]
    /\ IF dcReg[g] > 0
         THEN /\ queue_stop(g)
              /\ meta' = [meta EXCEPT ![g] = DisconnectMeta(@)]
         ELSE UNCHANGED <<queue, endPending, meta>>
    /\ dcReg' = [dcReg EXCEPT ![g] = After(@, DisconnectStopResult, @)]
    /\ UNCHANGED <<registry, callsMade, chan, idleReg, endReg, callLock,
                   gdata, gdataMade, endTodo, obsVars, taskVars>>

\* --------------------------------------------------------- RemoveMeta::act
\* Mutant: the handler gives up when there was nothing to pop.
RemoveMetaResult_cancel(q) == IF q = <<>> THEN "cancel" ELSE "continue"

\* The Option<Event> RemoveMeta::act returns, whatever pop_front returned.
RemoveMetaResult(q) == "continue"

\* The current track finishes: the transport's queue advances and
\* TrackEvent::End is on its way to the global handlers.
TrackFinish(g) ==
    /\ queue[g] # <<>>
    /\ endPending[g] < MaxPending
    /\ queue' = [queue EXCEPT ![g] = Tail(@)]
    /\ endPending' = [endPending EXCEPT ![g] = @ + 1]
    /\ UNCHANGED <<registry, callsMade, chan, idleReg, dcReg, endReg, callLock,
                   dataVars, dcPending, endTodo, obsVars, taskVars>>

\* TrackEvent::End reaches a call with no RemoveMeta registered yet.
EndUnhandled(g) ==
    /\ endTodo[g] = 0
    /\ endPending[g] > 0
    /\ endReg[g] = 0
    /\ callLock[g] # "idle"
    /\ endPending' = [endPending EXCEPT ![g] = @ - 1]
    /\ UNCHANGED <<callVars, dataVars, dcPending, endTodo, obsVars, taskVars>>

\* TrackEvent::End is delivered to the registered RemoveMeta handlers, one
\* after the other; this is one of them: queue_meta.pop_front().
RemoveMetaAct(g) ==
    /\ callLock[g] # "idle"
    /\ IF endTodo[g] > 0
         THEN /\ endTodo' = [endTodo EXCEPT ![g] = @ - 1]
              /\ UNCHANGED endPending
         ELSE /\ endPending[g] > 0
              /\ endReg[g] > 0
              /\ endPending' = [endPending EXCEPT ![g] = @ - 1]
              /\ endTodo' = [endTodo EXCEPT ![g] = endReg[g] - 1]
    /\ meta' = [meta EXCEPT ![g] = pop_front(@)]
    /\ desyncLogged' = [desyncLogged EXCEPT ![g] = @ \/ PopLogs(meta[g])]
    /\ endReg' = [endReg EXCEPT ![g] = After(@, RemoveMetaResult(meta[g]), 1)]
    /\ UNCHANGED <<registry, callsMade, chan, queue, idleReg, dcReg, callLock,
                   gdata, gdataMade, dcPending, lastTick, pat, shown, sysVars, taskVars>>

\* ----------------------------------------------------------- queue command
\* queue: ctx.guild_data(), then the embed with queue_meta.display_string().
QueueCmd(g) ==
    /\ guild_data(g)
    /\ shown' = [shown EXCEPT ![g] = display_string(meta[g])]
    /\ UNCHANGED <<meta, callVars, evVars, lastTick, pat, desyncLogged, sysVars, taskVars>>

\* ------------------------------------------------------- specifications
LookupOutcomes == {"fail", "members", "empty"}

Start(t) ==
    \/ \E g \in Home : StartPlay(t, g)
    \/ PlayNoGuild(t)
    \/ \E g \in Home : StartStop(t, g)
    \/ \E g \in Home : StartSkip(t, g)

Handlers(g) ==
    \/ IdleNoChannel(g)
    \/ IdleBegin(g)
    \/ \E obs \in LookupOutcomes : IdleLookup(g, obs)
    \/ TransportDrop(g)
    \/ DisconnectStopAct(g)
    \/ TrackFinish(g)
    \/ RemoveMetaAct(g)

\* No other command is in flight when task t starts one.
OthersIdle(t) == \A u \in Tasks \ {t} : pc[u] = "idle"

\* One session; commands one after the other, each interleaved step by step
\* with the handlers the driver's event task runs.
Next ==
    \/ \E t \in Tasks : OthersIdle(t) /\ Start(t)
    \/ \E t \in Tasks : PlayStep(t) \/ StopStep(t) \/ SkipStep(t)
    \/ \E g \in Home : Handlers(g)

Spec == Init /\ [][Next]_vars

\* One session; commands run as concurrent tasks.
NextConc ==
    \/ \E t \in Tasks : Start(t) \/ PlayStep(t) \/ StopStep(t) \/ SkipStep(t)
    \/ \E g \in Home : Handlers(g) \/ EndUnhandled(g)

SpecConc == Init /\ [][NextConc]_vars

\* One session; only enqueues (play commands, one after the other) and
\* track ends.
NextQueue ==
    \/ \E t \in Tasks : OthersIdle(t) /\ \E g \in Home : StartPlay(t, g)
    \/ \E t \in Tasks : PlayStep(t)
    \/ \E g \in Home : TrackFinish(g) \/ RemoveMetaAct(g)

SpecQueue == Init /\ [][NextQueue]_vars

\* One session; concurrent play commands and track ends.
NextJoin ==
    \/ \E t \in Tasks : (\E g \in Home : StartPlay(t, g)) \/ PlayStep(t)
    \/ \E g \in Home : TrackFinish(g) \/ EndUnhandled(g) \/ RemoveMetaAct(g)

SpecJoin == Init /\ [][NextJoin]_vars

\* A step of a play command that does not fail: the author is in a voice
\* channel, the join and the metadata lookup succeed.
PlayGoesOn(t) ==
    \/ InitGet(t) \/ InitInsert(t) \/ InitMeta(t)
    \/ RegIdle(t) \/ RegDc(t) \/ RegEnd(t)
    \/ JoinOk(t)
    \/ PlayMeta(t) /\ pc'[t] = "enq_data"
    \/ EnqData(t) \/ EnqMeta(t) \/ EnqCall(t)

\* One session that keeps going: concurrent play commands, none of which
\* fails, and track ends.
NextHeal ==
    \/ \E t \in Tasks : (\E g \in Home : StartPlay(t, g)) \/ PlayGoesOn(t)
    \/ \E g \in Home : TrackFinish(g) \/ EndUnhandled(g) \/ RemoveMetaAct(g)

\* Commands that were started run to their end, users keep enqueueing while
\* there is room, tracks that play come to their end and every event fired
\* is delivered to its handlers.
FairHeal ==
    /\ \A t \in Tasks : WF_vars(PlayGoesOn(t))
    /\ \A t \in Tasks : WF_vars(\E g \in Home : StartPlay(t, g))
    /\ \A g \in Home : WF_vars(TrackFinish(g))
    /\ \A g \in Home : WF_vars(EndUnhandled(g))
    /\ \A g \in Home : WF_vars(RemoveMetaAct(g))

SpecHeal == Init /\ [][NextHeal]_vars /\ FairHeal

\* ------------------------------------------------------------ Config::read
\* What can be at CONFIG_PATH: no file; a file of no characters or of white
\* space only; a file that lacks a field; a file that is not the TOML of a
\* Config; the file write_file writes; a complete file; something that
\* read_to_string cannot read (no permission, a directory, not UTF-8).
FileStates ==
    {"missing", "empty", "spaces", "incomplete", "invalid", "default", "valid",
     "unreadable"}

\* content.trim().is_empty()
Blank == {"empty", "spaces"}

\* serde_path_to_error::deserialize gives a Config.
Complete == {"default", "valid"}

\* write_file(Config::default()): std::fs::write either writes the default
\* file or fails, leaving what was there or a file cut to nothing.
WriteOutcomes(f) ==
    {[ok |-> TRUE, fs |-> "default"], [ok |-> FALSE, fs |-> f]}
        \cup (IF f = "unreadable" THEN {} ELSE {[ok |-> FALSE, fs |-> "empty"]})

\* Mutant: a file that does not parse is overwritten with the defaults too.
read_rewrites(f, w) ==
    CASE f = "unreadable" -> [from |-> f, result |-> "IoError", after |-> f, wrote |-> FALSE]
      [] f \in Complete -> [from |-> f, result |-> "Config", after |-> f, wrote |-> FALSE]
      [] OTHER ->
           [from |-> f,
            result |-> IF ~w.ok THEN "IoError"
                       ELSE IF f = "missing" THEN "MissingConfig" ELSE "InvalidConfig",
            after |-> w.fs, wrote |-> TRUE]

\* Config::read with f at CONFIG_PATH and w the outcome of the write, if one
\* is made: the result, the file afterwards, whether write_file was called.
read(f, w) ==
    CASE f = "missing" ->
           [from |-> f, result |-> IF w.ok THEN "MissingConfig" ELSE "IoError",
            after |-> w.fs, wrote |-> TRUE]
      [] f \in Blank ->
           [from |-> f, result |-> IF w.ok THEN "InvalidConfig" ELSE "IoError",
            after |-> w.fs, wrote |-> TRUE]
      [] f \in Complete ->
           [from |-> f, result |-> "Config", after |-> f, wrote |-> FALSE]
      [] f = "unreadable" ->
           [from |-> f, result |-> "IoError", after |-> f, wrote |-> FALSE]
      [] OTHER ->
           [from |-> f, result |-> "InvalidConfig", after |-> f, wrote |-> FALSE]

\* The bot is launched: Config::read runs once.
ConfigRead ==
    /\ cfgReads < MaxReads
    /\ \E w \in WriteOutcomes(fs) :
          /\ cfgRes' = read(fs, w)
          /\ fs' = read(fs, w).after
    /\ cfgReads' = cfgReads + 1
    /\ UNCHANGED <<fmtIn, fmtOut, callVars, dataVars, evVars,
                   lastTick, pat, desyncLogged, shown, taskVars>>

\* Between two launches the owner changes what is at CONFIG_PATH.
EditFile ==
    /\ \E f \in FileStates \ {fs} : fs' = f
    /\ UNCHANGED <<cfgRes, cfgReads, fmtIn, fmtOut, callVars, dataVars, evVars,
                   lastTick, pat, desyncLogged, shown, taskVars>>

\* Launches of the bot on whatever is at CONFIG_PATH.
InitConfig ==
    /\ InitBot
    /\ fs \in FileStates
    /\ cfgRes = NoRead
    /\ cfgReads = 0
    /\ fmtIn = NoFormat
    /\ fmtOut = NoOutput

NextConfig == ConfigRead \/ EditFile

SpecConfig == InitConfig /\ [][NextConfig]_vars

\* -------------------------------------------------------------- format_opt!
\* Text is a sequence of characters; "a" stands for every character that is
\* not a brace.
Chars == {"a", "{", "}"}

Texts == UNION {[1..n -> Chars] : n \in 0..MaxLen}

\* The first two characters of f are c and d.
StartsWith(f, c, d) == Len(f) >= 2 /\ f[1] = c /\ f[2] = d

Rest(f) == SubSeq(f, 3, Len(f))

\* The number of {} a format string holds, counted as format! parses it:
\* left to right, {{ and }} being escaped braces.
RECURSIVE Holes(_)
Holes(f) ==
    IF f = <<>> THEN 0
    ELSE IF StartsWith(f, "{", "{") \/ StartsWith(f, "}", "}") THEN Holes(Rest(f))
    ELSE IF StartsWith(f, "{", "}") THEN 1 + Holes(Rest(f))
    ELSE Holes(Tail(f))

\* format! accepts f: no brace stands alone.
RECURSIVE WellFormed(_)
WellFormed(f) ==
    IF f = <<>> THEN TRUE
    ELSE IF StartsWith(f, "{", "{") \/ StartsWith(f, "}", "}")
              \/ StartsWith(f, "{", "}") THEN WellFormed(Rest(f))
    ELSE f[1] = "a" /\ WellFormed(Tail(f))

\* The $some and $none with which format_opt! compiles: format!($some, s)
\* needs one {} for its one argument, format!($none) none.
SomeFormats == {f \in Texts : WellFormed(f) /\ Holes(f) = 1}
NoneFormats == {f \in Texts : WellFormed(f) /\ Holes(f) = 0}

\* The $opt of the test: Option<&str>, Option<String>, &Option<String>,
\* Some of a text (one with braces of its own among them) or None.
OptKinds == {"str", "String", "ref"}
Values == {<<>>, <<"a">>, <<"{", "}">>}
Opts ==
    {[kind |-> k, some |-> TRUE, val |-> v] : k \in OptKinds, v \in Values}
        \cup {[kind |-> k, some |-> FALSE, val |-> <<>>] : k \in OptKinds}

\* Display of the s bound by Some(s): &str, String and &String all show
\* their text.
Display(kind, v) == v

\* format!(f, arg): escaped braces come out single, {} shows the argument,
\* everything else is copied.
RECURSIVE Format(_, _)
Format(f, arg) ==
    IF f = <<>> THEN <<>>
    ELSE IF StartsWith(f, "{", "{") THEN <<"{">> \o Format(Rest(f), arg)
    ELSE IF StartsWith(f, "}", "}") THEN <<"}">> \o Format(Rest(f), arg)
    ELSE IF StartsWith(f, "{", "}") THEN arg \o Format(Rest(f), arg)
    ELSE <<f[1]>> \o Format(Tail(f), arg)

\* Mutant: the None arm is taken whatever $opt is.
format_opt_none(in) == Format(in.none, <<>>)

\* format_opt!($opt, $some, $none)
format_opt(in) ==
    IF in.opt.some
      THEN Format(in.some, Display(in.opt.kind, in.opt.val))
      ELSE Format(in.none, <<>>)

\* An invocation of format_opt! is evaluated.
FormatOpt ==
    /\ ~fmtOut.done
    /\ fmtOut' = [done |-> TRUE, text |-> format_opt(fmtIn)]
    /\ UNCHANGED <<fmtIn, fs, cfgRes, cfgReads, callVars, dataVars, evVars,
                   lastTick, pat, desyncLogged, shown, taskVars>>

\* The invocations of format_opt! that compile, up to MaxLen characters.
InitFormat ==
    /\ InitBot
    /\ fs = "valid"
    /\ cfgRes = NoRead
    /\ cfgReads = 0
    /\ fmtIn \in [opt : Opts, some : SomeFormats, none : NoneFormats]
    /\ fmtOut = NoOutput

NextFormat == FormatOpt

SpecFormat == InitFormat /\ [][NextFormat]_vars

\* One session; concurrent play and skip commands; tracks end only by being
\* skipped.
NextSkip ==
    \/ \E t \in Tasks : \E g \in Home : StartPlay(t, g) \/ StartSkip(t, g)
    \/ \E t \in Tasks : PlayStep(t) \/ SkipStep(t)
    \/ \E g \in Home : EndUnhandled(g) \/ RemoveMetaAct(g)

SpecSkip == Init /\ [][NextSkip]_vars

\* One session; play commands that do not fail, one after the other, and
\* the idle handler with the disconnect it brings about.
NextTeardown ==
    \/ \E t \in Tasks : OthersIdle(t) /\ \E g \in Home : StartPlay(t, g)
    \/ \E t \in Tasks : PlayGoesOn(t)
    \/ \E g \in Home : IdleNoChannel(g) \/ IdleBegin(g)
    \/ \E g \in Home : \E obs \in LookupOutcomes : IdleLookup(g, obs)
    \/ \E g \in Home : DisconnectStopAct(g) \/ RemoveMetaAct(g)

SpecTeardown == Init /\ [][NextTeardown]_vars

\* Two sessions.  On the first: play commands that do not fail at the join or
\* the metadata, skip and stop, one command after the other, the idle handler
\* finding its channel empty, and the disconnect and track-end handlers.  On
\* the second: play commands, which leave it with a call, handlers, tracks
\* and metadata of its own.
Both == {g \in Guilds : g <= 2}

NextBoth ==
    \/ \E t \in Tasks : OthersIdle(t) /\ \E g \in Both : StartPlay(t, g)
    \/ \E t \in Tasks : OthersIdle(t) /\ \E g \in Home : StartStop(t, g)
    \/ \E t \in Tasks : OthersIdle(t) /\ \E g \in Home : StartSkip(t, g)
    \/ \E t \in Tasks : PlayGoesOn(t) \/ StopStep(t) \/ SkipStep(t)
    \/ \E g \in Home : IdleNoChannel(g) \/ IdleBegin(g) \/ IdleLookup(g, "empty")
    \/ \E g \in Home : DisconnectStopAct(g) \/ RemoveMetaAct(g)

SpecBoth == Init /\ [][NextBoth]_vars

\* One session; play (not failing at the join or the metadata), stop and
\* skip commands as concurrent tasks, and the handlers of the call; the idle
\* handler finds the channel empty.
NextLocks ==
    \/ \E t \in Tasks : \E g \in Home : StartPlay(t, g) \/ StartStop(t, g) \/ StartSkip(t, g)
    \/ \E t \in Tasks : PlayGoesOn(t) \/ StopStep(t) \/ SkipStep(t)
    \/ \E g \in Home : IdleBegin(g) \/ IdleLookup(g, "empty")
    \/ \E g \in Home : DisconnectStopAct(g) \/ EndUnhandled(g) \/ RemoveMetaAct(g)

\* The step a started command of task t takes next.
CommandStep(t) == PlayGoesOn(t) \/ StopStep(t) \/ SkipStep(t)

SpecLocks == Init /\ [][NextLocks]_vars

\* One session; play and stop commands as concurrent tasks, and the idle
\* handler.
NextLeave ==
    \/ \E t \in Tasks : \E g \in Home : StartPlay(t, g) \/ StartStop(t, g)
    \/ \E t \in Tasks : PlayStep(t) \/ StopStep(t)
    \/ \E g \in Home : IdleNoChannel(g) \/ IdleBegin(g)
    \/ \E g \in Home : \E obs \in LookupOutcomes : IdleLookup(g, obs)

SpecLeave == Init /\ [][NextLeave]_vars

\* One session; enqueues, track ends and the /queue command.
NextShow ==
    \/ \E t \in Tasks : OthersIdle(t) /\ \E g \in Home : StartPlay(t, g)
    \/ \E t \in Tasks : PlayStep(t)
    \/ \E g \in Home : TrackFinish(g) \/ RemoveMetaAct(g)
    \/ \E g \in Home : QueueCmd(g)

SpecShow == Init /\ [][NextShow]_vars

\* Title lengths that bring a rendered line, or two, next to the embed limit.
Sizes == {1, 2, 2040, 2041, 4089, 4090}

TrackLists == UNION {[1..n -> Sizes] : n \in 0..MaxShown}

\* The state after the tracks of q were enqueued on the home guild by play
\* commands one after the other.
InitRender ==
    \E q \in TrackLists :
        /\ registry = [g \in Guilds |-> g \in Home]
        /\ callsMade = [g \in Guilds |-> IF g \in Home THEN 1 ELSE 0]
        /\ chan = [g \in Guilds |-> g \in Home]
        /\ queue = [g \in Guilds |-> IF g \in Home THEN q ELSE <<>>]
        /\ idleReg = [g \in Guilds |-> IF g \in Home THEN 1 ELSE 0]
        /\ dcReg = [g \in Guilds |-> IF g \in Home THEN 1 ELSE 0]
        /\ endReg = [g \in Guilds |-> IF g \in Home THEN 1 ELSE 0]
        /\ callLock = [g \in Guilds |-> "free"]
        /\ gdata = [g \in Guilds |-> g \in Home]
        /\ gdataMade = [g \in Guilds |-> IF g \in Home THEN 1 ELSE 0]
        /\ meta = [g \in Guilds |-> IF g \in Home THEN q ELSE <<>>]
        /\ dcPending = [g \in Guilds |-> FALSE]
        /\ endPending = [g \in Guilds |-> 0]
        /\ endTodo = [g \in Guilds |-> 0]
        /\ lastTick = [g \in Guilds |-> NoTick]
        /\ pat = [g \in Guilds |-> <<>>]
        /\ desyncLogged = [g \in Guilds |-> FALSE]
        /\ shown = [g \in Guilds |-> NoDisplay]
        /\ pc = [t \in Tasks |-> "idle"]
        /\ tg = [t \in Tasks |-> 1]
        /\ lastRes = "ok"
        /\ found = [t \in Tasks |-> FALSE]
        /\ response = NoResponse
        /\ InitSys

\* The /queue command alone, on every QueueMeta of InitRender.
NextRender == \E g \in Home : QueueCmd(g)

SpecRender == InitRender /\ [][NextRender]_vars

\* ================================================================ claims
InitPcs == {"init_insert", "init_meta", "reg_idle", "reg_dc", "reg_end"}

\* No enqueue and no track end of guild g is half done.
Quiescent(g) ==
    /\ endPending[g] = 0
    /\ endTodo[g] = 0
    /\ \A t \in Tasks : tg[t] = g => pc[t] # "enq_call"

\* C1: under enqueues and track ends alone, whenever no enqueue and no track
\* end is half done the QueueMeta is as long as the playback queue.
C1_LengthsAgree ==
    \A g \in Guilds : Quiescent(g) => Len(meta[g]) = Len(queue[g])

\* An enqueue has returned Ok and a track end has emptied both queues again.
C1_Witness ==
    /\ lastRes = "ok"
    /\ \E g \in Home : Quiescent(g) /\ queue[g] = <<>> /\ meta[g] = <<>>
    /\ \A t \in Tasks : pc[t] = "idle"

\* C2: concurrent join_author calls leave the call with one handler of each
\* kind, and one Call.
C2_OneHandlerSet ==
    \A g \in Guilds :
        /\ callsMade[g] <= 1
        /\ idleReg[g] <= 1
        /\ dcReg[g] <= 1
        /\ endReg[g] <= 1

C4_NoJoinWhenStored ==
    [][\A t \in Tasks : found[t] => ~(JoinOk(t) \/ JoinFail(t))]_vars

\* C4 as amended: a join_author that finds the call stored creates no Call
\* and registers no handler in any of its steps (it does invoke the
\* transport's join).
C4_StoredCallReused ==
    [][\A t \in Tasks :
          (found[t] /\ pc'[t] # pc[t]) =>
              /\ registry' = registry
              /\ callsMade' = callsMade
              /\ idleReg' = idleReg /\ dcReg' = dcReg /\ endReg' = endReg]_vars

\* The command found the call stored, and manager.join has returned Ok.
C4_Witness ==
    \E t \in Tasks : found[t] /\ pc[t] = "play_meta" /\ callsMade[tg[t]] = 1

\* C5 as claimed: a join_author that created the call and then fails at the
\* join leaves no call stored for the guild.
C5_NothingStoredOnFailure ==
    [][\A t \in Tasks :
          (pc[t] = "join" /\ pc'[t] = "idle" /\ ~found[t]) => ~registry'[tg[t]]]_vars

\* C5 as amended: a join_author that fails at the join (rejected or transport
\* error) leaves the call stored, with its three handlers registered; a
\* rejection does not touch the connection.
C5_CallStoredOnFailure ==
    [][\A t \in Tasks :
          (pc[t] = "join" /\ pc'[t] = "idle") =>
              /\ registry'[tg[t]]
              /\ idleReg'[tg[t]] = 1 /\ dcReg'[tg[t]] = 1 /\ endReg'[tg[t]] = 1
              /\ (lastRes' \in {"NotInGuild", "NotInVoice"} => chan' = chan)]_vars

\* The latest command failed at the transport's join; the call is stored.
C5_Witness ==
    /\ lastRes = "JoinError"
    /\ \A t \in Tasks : pc[t] = "idle"
    /\ \E g \in Home : registry[g] /\ idleReg[g] = 1

\* C6: a handled DriverDisconnect leaves the playback queue and the QueueMeta
\* empty.
C6_DisconnectClearsBoth ==
    [][\A g \in Guilds :
          (DisconnectStopAct(g) /\ dcReg[g] > 0) =>
              queue'[g] = <<>> /\ meta'[g] = <<>>]_vars

\* C7: a tick whose lookup saw a non-bot member did not call leave().
C7_NoLeaveWithMembers ==
    \A g \in Guilds : lastTick[g].kind = "members" => ~lastTick[g].left

\* The latest tick saw a member; the call is still in its channel.
C7_Witness ==
    \E g \in Home : lastTick[g].kind = "members" /\ chan[g]

\* C8: a tick whose lookup failed did not call leave(); two failed ticks and
\* then an empty one called leave() once between them.
C8_LookupFailureKeepsCall ==
    \A g \in Guilds :
        /\ lastTick[g].kind = "fail" => ~lastTick[g].left
        /\ Len(pat[g]) = 3 => Cardinality({i \in 1..3 : pat[g][i]}) = 1

\* Two failed ticks and an empty one have just run.
C8_Witness ==
    \E g \in Home : Len(pat[g]) = 3 /\ ~chan[g]

\* C9 as claimed: a tick that finds no current channel does not call leave().
C9_NoLeaveWithoutChannel ==
    \A g \in Guilds : lastTick[g].kind = "nochan" => ~lastTick[g].left

\* C9 as amended: a tick that finds no current channel calls leave() and
\* changes nothing else: the call still has no channel, both queues and the
\* registered handlers are as before.
C9_NoChannelTickKeepsState ==
    [][\A g \in Guilds :
          IdleNoChannel(g) =>
              /\ lastTick'[g] = [kind |-> "nochan", left |-> TRUE]
              /\ ~chan'[g]
              /\ queue' = queue /\ meta' = meta
              /\ idleReg' = idleReg /\ dcReg' = dcReg /\ endReg' = endReg]_vars

\* The latest tick found no channel, with a track still queued.
C9_Witness ==
    \E g \in Home :
        lastTick[g].kind = "nochan" /\ ~chan[g] /\ idleReg[g] = 1 /\ meta[g] # <<>>

\* C10: RemoveMeta::act on an empty QueueMeta logs the error and leaves the
\* QueueMeta, the playback queue and the registered handlers as they were.
C10_EmptyPopKeepsState ==
    [][\A g \in Guilds :
          (RemoveMetaAct(g) /\ meta[g] = <<>>) =>
              /\ meta'[g] = <<>>
              /\ queue' = queue
              /\ endReg' = endReg
              /\ desyncLogged'[g]]_vars

\* The error has been logged, and another track end is about to be handled
\* on an empty QueueMeta.
C10_Witness ==
    \E g \in Home :
        /\ desyncLogged[g]
        /\ meta[g] = <<>>
        /\ endReg[g] > 0
        /\ endPending[g] > 0

\* C11: RemoveMeta::act on a non-empty QueueMeta removes exactly the oldest
\* entry: one entry fewer, and every other entry moves up one place, in order.
C11_PopsOldest ==
    [][\A g \in Guilds :
          (RemoveMetaAct(g) /\ meta[g] # <<>>) =>
              /\ Len(meta'[g]) = Len(meta[g]) - 1
              /\ \A i \in 1..Len(meta'[g]) : meta'[g][i] = meta[g][i + 1]]_vars

\* A track end is about to be handled on a QueueMeta that holds two
\* different entries.
C11_Witness ==
    \E g \in Home :
        /\ Len(meta[g]) = 2
        /\ meta[g][1] # meta[g][2]
        /\ endPending[g] > 0
        /\ endReg[g] = 1

C13_DisconnectRemovesHandlers ==
    [][\A g \in Guilds :
          (DisconnectStopAct(g) /\ dcReg[g] > 0) =>
              idleReg'[g] = 0 /\ dcReg'[g] = 0 /\ endReg'[g] = 0]_vars

\* C14: the /queue command numbers the entries from 1: the i-th oldest entry
\* of the QueueMeta is rendered with number i.
C14_NumberedFromOne ==
    \A g \in Guilds :
        \A i \in 1..Len(shown[g].lines) : shown[g].lines[i].num = i

\* C15: the rendered queue is never longer than the embed limit, line
\* terminators included, and its lines are the first entries of the
\* QueueMeta, in order.
C15_DisplayBounded ==
    \A g \in Guilds :
        /\ shown[g].len <= EmbedLimit
        /\ Len(shown[g].lines) <= Len(meta[g])
        /\ \A i \in 1..Len(shown[g].lines) : shown[g].lines[i].track = meta[g][i]

C17_PushAfterEnqueue ==
    \A g \in Guilds : Len(meta[g]) <= endPending[g] + Len(queue[g])

\* C17 as amended: the metadata of a track is pushed before the track is
\* enqueued, hence before its track end is handled: a track about to be
\* enqueued has its entry at the back of the QueueMeta, and the tracks that
\* are queued or whose end is yet to be handled have theirs, in order.
C17_PushBeforeEnqueue ==
    /\ \A t \in Tasks :
          pc[t] = "enq_call" =>
              /\ meta[tg[t]] # <<>>
              /\ meta[tg[t]][Len(meta[tg[t]])] = Title(t)
    /\ \A g \in Guilds :
          endTodo[g] = 0 =>
              /\ Len(meta[g]) >= endPending[g] + Len(queue[g])
              /\ SubSeq(meta[g], endPending[g] + 1, endPending[g] + Len(queue[g]))
                    = queue[g]

\* A second play command has pushed its metadata and not yet enqueued its
\* track, while the end of the first track is yet to be handled.
C17_Witness ==
    \E t \in Tasks :
        /\ pc[t] = "enq_call"
        /\ Len(meta[tg[t]]) = 2
        /\ queue[tg[t]] = <<>>
        /\ endPending[tg[t]] = 1

\* C18: leave() runs with the call's mutex held: while CheckIdle or stop
\* holds the mutex no track is added to the call's playback queue, and a
\* leave() that drops the connection happens only with the mutex held.
C18_NoEnqueueDuringLeave ==
    [][\A g \in Guilds :
          /\ callLock[g] \in {"idle", "stop"} => Len(queue'[g]) <= Len(queue[g])
          /\ (dcPending'[g] /\ ~dcPending[g]) => callLock[g] \in {"idle", "stop"}]_vars

\* A play command is about to enqueue its track while stop holds the call's
\* mutex for its leave().
C18_Witness ==
    \E t \in Tasks :
        /\ pc[t] = "enq_call"
        /\ callLock[tg[t]] = "stop"
        /\ \E u \in Tasks \ {t} : pc[u] = "stop_leave" /\ tg[u] = tg[t]

\* C19: the call's mutex is not held while a task waits for a collaborator:
\* not by CheckIdle during the lookup of the channel and its members, not by
\* stop or skip while the reply is sent.
C19_NoLockAcrossCollaborator ==
    /\ \A g \in Guilds : callLock[g] # "idle"
    /\ \A t \in Tasks :
          pc[t] \in {"stop_leave", "skip_reply"} => callLock[tg[t]] = "free"

\* C20: a guild never has more than one Call: every manager.get_or_insert
\* and manager.join of the guild, concurrent ones too, yields the one stored.
C20_OneCallPerGuild ==
    \A g \in Guilds :
        /\ callsMade[g] <= 1
        /\ registry[g] => callsMade[g] = 1

\* Two concurrent play commands both took the None arm of manager.get and
\* both joined; the guild has one Call.
C20_Witness ==
    \E g \in Home :
        /\ idleReg[g] = 2
        /\ callsMade[g] = 1
        /\ \A t \in Tasks : pc[t] = "play_meta" /\ ~found[t]

\* ---------------------------------------------------------------- C21
\* C21: guild_data creates the record, with an empty QueueMeta, when the
\* guild has none and returns the existing one otherwise: however the calls
\* of concurrent commands interleave, one record is created per guild, and a
\* guild without a record has no metadata.
C21_OneGuildData ==
    \A g \in Guilds :
        /\ gdataMade[g] <= 1
        /\ gdata[g] <=> gdataMade[g] = 1
        /\ ~gdata[g] => meta[g] = <<>>

\* Two commands both went through guild_data for the same guild and hold
\* their handles at the same time.
C21_Witness ==
    \E g \in Guilds :
        /\ gdataMade[g] = 1
        /\ \A t \in Tasks : tg[t] = g /\ pc[t] \in {"enq_meta", "enq_call"}

C23_JoinFailureGeneric ==
    [][\A t \in Tasks :
          /\ (pc[t] = "join" /\ pc'[t] # pc[t]) => pc'[t] \in {"idle", "play_meta"}
          /\ (pc[t] # "join" /\ pc'[t] = "join") => pc[t] \in {"init_get", "reg_end"}
          /\ (pc[t] = "join" /\ pc'[t] = "idle" /\ lastRes' = "JoinError") =>
                /\ response'.reply = GenericReply
                /\ response'.reply # ErrorText("JoinError")
                /\ response'.level = "error"
                /\ response'.logged = ErrorText("JoinError")]_vars

\* A play command ended with a JoinError on a call that is stored.
C23_Witness ==
    /\ lastRes = "JoinError"
    /\ response.level = "error"
    /\ \E g \in Guilds : registry[g] /\ ~chan[g]

\* ---------------------------------------------------------------- C25
\* C25: when a stop command completes, the QueueMeta of its guild is empty.
C25_StopClearsMeta ==
    [][\A t \in Tasks : StopQueue(t) => meta'[tg[t]] = <<>>]_vars

\* ---------------------------------------------------------------- C26
\* C26: whenever a stop command returns and the call has left its voice
\* channel, the track queue has been cleared, the return on a failed reply
\* included.
C26_StopLeavesAndClears ==
    [][\A t \in Tasks :
          (pc[t] \in {"stop_leave", "stop_queue"} /\ pc'[t] = "idle"
              /\ ~chan'[tg[t]]) => queue'[tg[t]] = <<>>]_vars

\* ---------------------------------------------------------------- C30
\* C30: a task that holds the call returned by join_author holds a call on
\* which the three global handlers are registered.
C30_HandleAfterHandlers ==
    \A t \in Tasks :
        pc[t] \in {"play_meta", "enq_data", "enq_meta", "enq_call"} =>
            idleReg[tg[t]] >= 1 /\ dcReg[tg[t]] >= 1 /\ endReg[tg[t]] >= 1

\* ---------------------------------------------------------------- C24
\* The QueueMeta and the track queue of g disagree in length while no enqueue
\* and no track end is half done.
Desync(g) == Quiescent(g) /\ Len(meta[g]) # Len(queue[g])

\* C24: once the lengths of QueueMeta and track queue disagree, going on with
\* enqueues and track ends leads to a point from which they agree for good.
C24_SelfHeals ==
    (\E g \in Guilds : Desync(g)) ~> [](\A g \in Guilds : ~Desync(g))

\* ---------------------------------------------------------------- C27
\* C27: Config::read on a missing file creates the default file and returns
\* MissingConfig; on a blank file it rewrites the defaults and returns
\* InvalidConfig; in neither case it returns a Config.
C27_MissingOrBlank ==
    /\ cfgRes.from \in {"missing"} \cup Blank => cfgRes.result # "Config"
    /\ cfgRes.from = "missing" =>
          cfgRes.result = "MissingConfig" /\ cfgRes.after = "default"
    /\ cfgRes.from \in Blank =>
          cfgRes.result = "InvalidConfig" /\ cfgRes.after = "default"

Braces(f) == Cardinality({i \in DOMAIN f : f[i] # "a"})

\* The text f has its one {} at i and no other brace.
PlainHoleAt(f, i) ==
    /\ i \in 1..(Len(f) - 1)
    /\ f[i] = "{" /\ f[i + 1] = "}"
    /\ Braces(f) = 2

C32_SkipEmptyQueue ==
    [][\A t \in Tasks :
          (pc[t] = "skip_lock" /\ pc'[t] # "skip_lock" /\ queue[tg[t]] = <<>>) =>
              /\ pc'[t] = "idle"
              /\ lastRes' = "EmptyQueue"
              /\ response'.reply = "Nothing in the queue!"
              /\ UNCHANGED <<queue, meta, chan, registry, callLock, evVars>>]_vars

\* A skip found the connected call with nothing queued.
C32_Witness ==
    /\ lastRes = "EmptyQueue"
    /\ \E t \in Tasks :
          /\ pc[t] = "idle"
          /\ registry[tg[t]] /\ chan[tg[t]]
          /\ queue[tg[t]] = <<>>

\* ---------------------------------------------------------------- C33
\* C33: once the enqueues of concurrent play commands have all completed,
\* the QueueMeta lists the tracks in the order of the track queue.
C33_SameOrder ==
    \A g \in Guilds :
        ((\A t \in Tasks : pc[t] = "idle") /\ Len(meta[g]) = Len(queue[g])) =>
            \A i \in 1..Len(queue[g]) : meta[g][i] = queue[g][i]

\* ---------------------------------------------------------------- C34
\* C34: an enqueue whose metadata lookup fails changes neither the QueueMeta
\* nor the track queue, and an enqueue that has pushed its metadata ends
\* only by enqueueing its track: both gain an entry or neither does.
C34_BothOrNeither ==
    [][\A t \in Tasks :
          /\ (pc[t] = "enq_meta" /\ pc'[t] = "idle") =>
                meta' = meta /\ queue' = queue
          /\ (pc[t] = "enq_meta" /\ pc'[t] # "idle" /\ pc'[t] # pc[t]) =>
                /\ pc'[t] = "enq_call"
                /\ meta'[tg[t]] = Append(meta[tg[t]], Title(t))
                /\ queue' = queue
          /\ (pc[t] = "enq_call" /\ pc'[t] # pc[t]) =>
                /\ pc'[t] = "idle"
                /\ queue'[tg[t]] = Append(queue[tg[t]], Title(t))
                /\ meta' = meta]_vars

\* After one enqueue that went through, the next one failed on its metadata.
C34_Witness ==
    /\ lastRes = "MetadataError"
    /\ \A t \in Tasks : pc[t] = "idle"
    /\ \E g \in Guilds : Len(meta[g]) = 1 /\ Len(queue[g]) = 1

\* ---------------------------------------------------------------- C35
\* C35: the GuildData record of a guild, once created, is never removed and
\* never replaced by another one: RemoveMeta, enqueue and the /queue command
\* all get their QueueMeta from the one record ever made for the guild.
C35_RecordStays ==
    [][\A g \in Guilds :
          /\ gdata[g] => gdata'[g] /\ gdataMade'[g] = gdataMade[g]
          /\ (endReg'[g] > 0 \/ meta'[g] # <<>> \/ shown'[g] # NoDisplay) =>
                gdata'[g] /\ gdataMade'[g] = 1]_vars

\* RemoveMeta is registered, an enqueue has pushed and /queue has shown the
\* list, all on the one record.
C35_Witness ==
    \E g \in Guilds :
        /\ gdataMade[g] = 1
        /\ endReg[g] > 0
        /\ meta[g] # <<>>
        /\ shown[g].lines # <<>>

\* ---------------------------------------------------------------- C31
\* C31: a skip on a call with a current track removes the head of the track
\* queue and nothing else, and the handling of the track end it causes
\* removes the front entry of the QueueMeta and nothing else.
C31_SkipAdvances ==
    [][/\ \A t \in Tasks :
            (pc[t] = "skip_lock" /\ pc'[t] = "skip_reply") =>
                /\ queue'[tg[t]] = Tail(queue[tg[t]])
                /\ meta' = meta
                /\ endPending'[tg[t]] = endPending[tg[t]] + 1
       /\ \A g \in Guilds :
            endPending'[g] < endPending[g] =>
                /\ meta[g] # <<>>
                /\ meta'[g] = Tail(meta[g])
                /\ endTodo'[g] = 0]_vars

\* ---------------------------------------------------------------- C38
\* No command, no handler and no event of guild g is under way.
AtRest(g) ==
    /\ \A t \in Tasks : pc[t] = "idle"
    /\ callLock[g] = "free"
    /\ ~dcPending[g]
    /\ endPending[g] = 0 /\ endTodo[g] = 0

\* C38: however a play command and an idle teardown interleave, once both
\* are through a call without a current channel has an empty track queue.
C38_DisconnectedIsEmpty ==
    \A g \in Guilds : (AtRest(g) /\ registry[g] /\ ~chan[g]) => queue[g] = <<>>

\* ---------------------------------------------------------------- C36
\* What a guild has of its own: its call, its track queue, its QueueMeta and
\* the handlers registered on its call.
Session(g) ==
    <<registry[g], chan[g], callLock[g], queue[g], gdata[g], meta[g],
      idleReg[g], dcReg[g], endReg[g]>>

\* A step of a command on guild a or of a handler of a's call.
OpOn(a) ==
    \/ \E t \in Tasks : StartPlay(t, a) \/ StartStop(t, a) \/ StartSkip(t, a)
    \/ \E t \in Tasks : tg[t] = a /\ (PlayStep(t) \/ StopStep(t) \/ SkipStep(t))
    \/ Handlers(a)

\* C36: an enqueue, skip, stop, idle tick, disconnect or track end of one
\* guild leaves the call, the track queue, the QueueMeta and the handlers of
\* every other guild as they were.
C36_SessionsIsolated ==
    [][\A a \in Guilds : \A b \in Guilds \ {a} :
          OpOn(a) => Session(b)' = Session(b)]_vars

\* The first guild's call was left by its idle handler and stopped, while
\* the second guild is connected with a track queued.
C36_Witness ==
    /\ registry[1] /\ ~chan[1] /\ lastTick[1].left /\ ~dcPending[1]
    /\ registry[2] /\ chan[2] /\ queue[2] # <<>> /\ meta[2] # <<>>
    /\ endReg[2] > 0

\* ---------------------------------------------------------------- C37
\* The tasks that hold the mutex of g's call across an await.
Holders(g) ==
    {t \in Tasks : tg[t] = g /\ pc[t] \in {"stop_leave", "stop_queue", "skip_reply"}}

\* The mutex of g's call is held by exactly the one that took it, and the
\* holder's next step waits for nothing.
HeldByRunner(g) ==
    CASE callLock[g] = "free" -> Holders(g) = {}
      [] callLock[g] = "idle" -> Holders(g) = {} /\ ENABLED IdleLookup(g, "empty")
      [] callLock[g] = "stop" ->
           /\ Cardinality(Holders(g)) = 1
           /\ \A t \in Holders(g) : pc[t] # "skip_reply" /\ ENABLED StopStep(t)
      [] callLock[g] = "skip" ->
           /\ Cardinality(Holders(g)) = 1
           /\ \A t \in Holders(g) : pc[t] = "skip_reply" /\ ENABLED SkipStep(t)

\* The track-end events of g's call are being delivered.
EndsDelivered(g) ==
    (endPending[g] > 0 \/ endTodo[g] > 0) /\ ENABLED (EndUnhandled(g) \/ RemoveMetaAct(g))

====
